---- MODULE Spec2Model ----
(***************************************************************************)
(* A model of the time-series core of covid-bot:                           *)
(*   - api.py: multipleDaysData (normalisation of province records, the    *)
(*     monotonicity repair, the derived lists and R values);               *)
(*   - hopkins_api.py: CountryData (new cases, weekly averages, R values)  *)
(*     and the CovidHistoryDatabase pipeline (date_data included);         *)
(*   - api.py DayDataDiff and painter.py SingleDataPoster.delta_precentage;*)
(*   - main.py: a run of main() over config.json, one bot per country.     *)
(*                                                                         *)
(* Numbers.  Python floats that the code produces by dividing integers are *)
(* kept as exact rationals [num, den].  An R value is the real number      *)
(* b ** (4/7) for a rational b; since x |-> x ** (4/7) is injective on the *)
(* non-negative reals, with 0 ** (4/7) = 0 and 1 ** (4/7) = 1, an R value  *)
(* is kept as [base |-> b] with b in lowest terms (a negative base stands  *)
(* for the complex number Python returns for it).                          *)
(*                                                                         *)
(* Strings.  A text cell such as "Province" is the sequence of the tokens  *)
(* that the program joins with ", "; no token is a substring of another.   *)
(***************************************************************************)
EXTENDS Integers, Sequences, FiniteSets, TLC

\* ---------------------------------------------------------------- bounds
\* the longest list of day records handed to multipleDaysData
MaxRecords == 3
\* the largest cumulative count of a record in the short inputs
MaxVal == 2
\* the longest daily series (two 7-day windows need 15 days)
MaxDays == 17
\* the number of constant-growth phases of a long daily series
MaxPhases == 3
\* the confirmed count on the first day of a long daily series
FirstConfirmed == 2
\* the most rows of a downloaded sheet
MaxRows == 2
\* the most dates of a row handed to __merge_same_ids
MaxRowDates == 2
\* the most rows of a table handed to __squash_data_by_id
MaxTableRows == 3
\* the most characters of a cell token of the downloaded csv
MaxTokenLen == 3
\* the most '/'-separated parts of a header
MaxParts == 4
\* the largest value handed to a percentage computation on its own
MaxCount == 9
\* the most countries of config.json
MaxConfig == 3

\* the dates, provinces and small counts the short inputs draw from
Dates == {1, 2}
Provinces == {"a", "b"}
MinorCounts == {0, 1}
\* the daily changes a long series draws from
Deltas == {-1, 0, 2}
\* spec.md section 8: cumulative confirmed [10, 10, 8, 15]
ScenarioConfirmed == <<10, 10, 8, 15>>

VARIABLES
  json_info,    \* the list of day records passed to multipleDaysData(...), as passed
  caller_data,  \* the same list object as the caller sees it (records are shared)
  raw,          \* multipleDaysData.__raw
  log,          \* the warnings logged by the monotonicity repair
  last_count,   \* modified_count of the latest run of the repair
  sheets,       \* the three downloaded sheets: _headers and _content of each
  db,           \* CovidHistoryDatabase.__data
  series,       \* CountryData.__data: the day records of one country
  args,         \* the arguments of a helper of hopkins_api.py that is run on its own
  config,       \* main.py: the country codes of config.json, in the file's order
  bots,         \* main.py: the api (a download number, 0 for None) of each bot created
  downloads,    \* main.py: how many times CovidHistoryDatabase() was constructed
  files,        \* main.py: the files that exist in the working directory
  answer,       \* the value returned by the latest query
  pc            \* where the client of the object stands

apiVars == <<json_info, caller_data, raw, log, last_count>>
hopkinsVars == <<sheets, db, series, args>>
mainVars == <<config, bots, downloads, files>>
vars == <<apiVars, hopkinsVars, mainVars, answer, pc>>

\* no run of main() is under way
NoMain ==
  /\ config = <<>>
  /\ bots = <<>>
  /\ downloads = 0
  /\ files = {}

\* ------------------------------------------------------------ arithmetic
Abs(n) == IF n < 0 THEN -n ELSE n

RECURSIVE Gcd(_, _)
Gcd(a, b) == IF b = 0 THEN a ELSE Gcd(b, a % b)

\* the rational n/d (d # 0) in lowest terms, with a positive denominator
Reduce(n, d) ==
  LET g == Gcd(Abs(n), Abs(d))
      s == IF d < 0 THEN -1 ELSE 1
  IN [num |-> s * (n \div g), den |-> s * (d \div g)]

\* Python's x / n for an int x and a non-zero int n
TrueDiv(x, n) == Reduce(x, n)

\* Python's x / y for two floats, y # 0
FloatDiv(x, y) == Reduce(x.num * y.den, x.den * y.num)

\* Python's sum(s)
RECURSIVE SumSeq(_)
SumSeq(s) == IF Len(s) = 0 THEN 0 ELSE s[1] + SumSeq(Tail(s))

Zero == [num |-> 0, den |-> 1]
One == [num |-> 1, den |-> 1]

\* base ** (4/7): the R value with that base (see the note on numbers)
PowFourSevenths(base) == [base |-> base]

\* the R values 0.0 and 1.0
ZeroR == PowFourSevenths(Zero)
OneR == PowFourSevenths(One)

\* ---------------------------------------------------- api.py: day records
\* one record of the covid19api answer; Country, CountryCode, City, CityCode,
\* Lat and Lon are strings treated like Province
DayRecord(date, province, confirmed, deaths, recovered) ==
  [Date |-> date, Province |-> <<province>>, Confirmed |-> confirmed,
   Deaths |-> deaths, Recovered |-> recovered,
   Active |-> confirmed - recovered - deaths]

NumericKeys == {"Confirmed", "Deaths", "Recovered", "Active"}
Monitored == {"Recovered", "Confirmed", "Deaths"}

\* Python's `d in s` for two strings
IsSubstring(d, s) ==
  \E i \in 0..(Len(s) - Len(d)) : SubSeq(s, i + 1, i + Len(d)) = d

\* api.py 97-110: the record built from the saved record and a further record
\* of the same date.  The `else` of line 109 belongs to the string test of
\* line 103, so for a numeric key it overwrites the sum stored at line 101.
MergeDayRecords(saved_data, data) ==
  [key \in DOMAIN saved_data |->
     IF key \in NumericKeys
       THEN LET summed == saved_data[key] + data[key]
                new_data == [afterSum |-> summed, afterElse |-> saved_data[key]]
            IN new_data.afterElse
     ELSE IF key = "Date"
       THEN saved_data[key]
     ELSE IF IsSubstring(data[key], saved_data[key])
       THEN saved_data[key]
     ELSE saved_data[key] \o data[key]]

RemoveAt(s, i) == SubSeq(s, 1, i - 1) \o SubSeq(s, i + 1, Len(s))

FirstIndexWithDate(normal_data, date) ==
  CHOOSE i \in 1..Len(normal_data) :
    /\ normal_data[i].rec.Date = date
    /\ \A j \in 1..(i - 1) : normal_data[j].rec.Date # date

\* api.py 85-115.  An entry of normal_data is [rec, ref]: ref = i when the entry
\* is the very dict json_info[i], ref = 0 when it is a dict built by the merge.
RECURSIVE NormalizeFrom(_, _, _, _)
NormalizeFrom(info, i, discovered_dates, normal_data) ==
  IF i > Len(info) THEN normal_data
  ELSE LET data == info[i] IN
    IF data.Date \in discovered_dates
      THEN LET index == FirstIndexWithDate(normal_data, data.Date)
               saved_data == normal_data[index].rec
               new_data == MergeDayRecords(saved_data, data)
           IN NormalizeFrom(info, i + 1, discovered_dates,
                Append(RemoveAt(normal_data, index), [rec |-> new_data, ref |-> 0]))
      ELSE NormalizeFrom(info, i + 1, discovered_dates \cup {data.Date},
                Append(normal_data, [rec |-> data, ref |-> i]))

normalize_data(info) == NormalizeFrom(info, 1, {}, <<>>)

\* api.py 128-136: one pass over the days, in place, so that the previous day
\* read at line 134 is the already repaired one
RECURSIVE ModifyFrom(_, _, _, _)
ModifyFrom(data, properties_to_modify, prev_i, modified_count) ==
  IF prev_i >= Len(data) THEN [data |-> data, count |-> modified_count]
  ELSE LET cur_i == prev_i + 1
           prev == data[prev_i].rec
           cur == data[cur_i].rec
           lowered == {key \in (DOMAIN cur) \cap properties_to_modify :
                         prev[key] > cur[key]}
           repaired == [key \in DOMAIN cur |->
                          IF key \in lowered THEN prev[key] ELSE cur[key]]
       IN ModifyFrom([data EXCEPT ![cur_i].rec = repaired], properties_to_modify,
                     cur_i, modified_count + Cardinality(lowered))

\* a repair that skips the last day (range(len(data) - 2))
modify_skipping_last_day(data, properties_to_modify) ==
  LET init == IF Len(data) >= 1 THEN SubSeq(data, 1, Len(data) - 1) ELSE data
      out == ModifyFrom(init, properties_to_modify, 1, 0)
  IN [data |-> IF Len(data) >= 1 THEN Append(out.data, data[Len(data)]) ELSE data,
      modified_count |-> out.count,
      modified_max |-> Cardinality(properties_to_modify) * Len(data)]

\* a repair that compares each day with the previous day as it was given,
\* not as it was repaired (a scan that does not work in place)
modify_comparing_given_days(data, properties_to_modify) ==
  LET lowered(i) == IF i = 1 THEN {}
                    ELSE {key \in (DOMAIN data[i].rec) \cap properties_to_modify :
                            data[i - 1].rec[key] > data[i].rec[key]}
      count[i \in 0..Len(data)] ==
        IF i = 0 THEN 0 ELSE count[i - 1] + Cardinality(lowered(i))
  IN [data |-> [i \in 1..Len(data) |->
                  [data[i] EXCEPT !.rec =
                     [key \in DOMAIN data[i].rec |->
                        IF key \in lowered(i) THEN data[i - 1].rec[key]
                                              ELSE data[i].rec[key]]]],
      modified_count |-> count[Len(data)],
      modified_max |-> Cardinality(properties_to_modify) * Len(data)]

\* a repair that counts the days it changed, not the values it changed
modify_counting_repaired_days(data, properties_to_modify) ==
  LET out == ModifyFrom(data, properties_to_modify, 1, 0)
      days == {i \in 1..Len(data) : out.data[i].rec # data[i].rec}
  IN [data |-> out.data,
      modified_count |-> Cardinality(days),
      modified_max |-> Cardinality(properties_to_modify) * Len(data)]

\* api.py 119-142 (data is not empty: line 127 reads data[0])
modify_to_monotonically_increasing(data, properties_to_modify) ==
  LET out == ModifyFrom(data, properties_to_modify, 1, 0)
  IN [data |-> out.data,
      modified_count |-> out.count,
      modified_max |-> Cardinality(properties_to_modify) * Len(data)]

\* api.py 138-140: the warning, logged only for a positive count
LogAfter(lg, out) ==
  IF out.modified_count > 0
    THEN Append(lg, [count |-> out.modified_count, total |-> out.modified_max])
    ELSE lg

Records(data) == [i \in 1..Len(data) |-> data[i].rec]

\* the caller's list after the repair wrote into the dicts it shares with it
SharedAfter(info, data) ==
  [i \in 1..Len(info) |->
     IF \E j \in 1..Len(data) : data[j].ref = i
       THEN data[CHOOSE j \in 1..Len(data) : data[j].ref = i].rec
       ELSE info[i]]

\* ------------------------------------------- api.py: the derived lists
\* api.py 172-185 with DayDataDiff.confirmed_diff (240-241, 253-255)
get_day_delta_confirmed(daydata, day_jumps) ==
  [k \in 1..(IF Len(daydata) > day_jumps THEN Len(daydata) - day_jumps ELSE 0) |->
     daydata[k + day_jumps].Confirmed - daydata[k].Confirmed]

\* api.py 191-192
get_cases_a_day_list(daydata) == get_day_delta_confirmed(daydata, 1)

\* api.py 187-189
get_x_cases_a_day_average_list(daydata, last_x_days) ==
  LET deltas == get_day_delta_confirmed(daydata, last_x_days)
  IN [k \in 1..Len(deltas) |-> TrueDiv(deltas[k], last_x_days)]

\* api.py 207-213: the second `if` is not an `elif`, so the value set for
\* cur_week == 0 is always overwritten
ApiRValue(cur_week, prev_week) ==
  LET after_first_if == IF cur_week = Zero THEN <<ZeroR>> ELSE <<>>
  IN IF prev_week = Zero THEN OneR
     ELSE PowFourSevenths(FloatDiv(cur_week, prev_week))

\* api.py 194-217
get_r_values(daydata) ==
  LET week_averages == get_x_cases_a_day_average_list(daydata, 7)
      days == Len(week_averages) - 7
  IN [k \in 1..(IF days > 0 THEN days ELSE 0) |->
        ApiRValue(week_averages[k + 7], week_averages[k])]

\* ------------------------------------------------ api.py: the operations
NoAnswer == [op |-> "none", val |-> <<>>]

\* multipleDaysData(json_info), api.py 60-74
Construct ==
  /\ pc = "start"
  /\ Len(json_info) >= 1
  /\ LET normal == normalize_data(json_info)
         out == modify_to_monotonically_increasing(normal, Monitored)
     IN /\ raw' = Records(out.data)
        /\ caller_data' = SharedAfter(json_info, out.data)
        /\ log' = LogAfter(log, out)
        /\ last_count' = out.modified_count
  /\ pc' = "constructed"
  /\ UNCHANGED <<mainVars, json_info, answer, hopkinsVars>>

\* multipleDaysData([]): line 127 raises IndexError
ConstructEmpty ==
  /\ pc = "start"
  /\ Len(json_info) = 0
  /\ pc' = "failed"
  /\ UNCHANGED <<mainVars, apiVars, answer, hopkinsVars>>

\* the repair run once more, on its own output
RepairAgain ==
  /\ pc = "constructed"
  /\ LET out == modify_to_monotonically_increasing(
                  [i \in 1..Len(raw) |-> [rec |-> raw[i], ref |-> 0]], Monitored)
     IN /\ raw' = Records(out.data)
        /\ log' = LogAfter(log, out)
        /\ last_count' = out.modified_count
  /\ pc' = "repaired"
  /\ UNCHANGED <<mainVars, json_info, caller_data, answer, hopkinsVars>>

GetCasesADayList ==
  /\ pc = "constructed"
  /\ answer' = [op |-> "get_cases_a_day_list", val |-> get_cases_a_day_list(raw)]
  /\ pc' = "answered"
  /\ UNCHANGED <<mainVars, apiVars, hopkinsVars>>

GetRValues ==
  /\ pc = "constructed"
  /\ answer' = [op |-> "get_r_values", val |-> get_r_values(raw)]
  /\ pc' = "answered"
  /\ UNCHANGED <<mainVars, apiVars, hopkinsVars>>

NextApi ==
  \/ Construct
  \/ ConstructEmpty
  \/ RepairAgain
  \/ GetCasesADayList
  \/ GetRValues

\* ------------------------------------------- hopkins_api.py: CountryData
\* Python's list[i] for an index from 0, a negative index counting from the end
At(list, i) == IF i >= 0 THEN list[i + 1] ELSE list[Len(list) + i + 1]

\* Python's range(a, b) as the sequence a, a+1, ..., b-1
Range(a, b) == [k \in 1..(IF b > a THEN b - a ELSE 0) |-> a + k - 1]

\* one day of a country in CovidHistoryDatabase.__data
CountryDay(date, confirmed, deaths, recovered) ==
  [date |-> date, confirmed |-> confirmed, deaths |-> deaths,
   recovered |-> recovered]

\* hopkins_api.py 30-37
confirmed_each_day(data) == [i \in 1..Len(data) |-> data[i].confirmed]

\* hopkins_api.py 49-56
deaths_each_day(data) == [i \in 1..Len(data) |-> data[i].deaths]

\* hopkins_api.py 73-80
recovered_each_day(data) == [i \in 1..Len(data) |-> data[i].recovered]

\* a loop that starts at index 0, so that its first element is
\* total[0] - total[-1]
new_cases_from_index_zero(data) ==
  LET total == confirmed_each_day(data)
      indexes == Range(0, Len(total))
  IN [k \in 1..Len(indexes) |->
        At(total, indexes[k]) - At(total, indexes[k] - 1)]

\* hopkins_api.py 124-137
new_cases_each_day(data) ==
  LET total == confirmed_each_day(data)
      indexes == Range(1, Len(total))
  IN [k \in 1..Len(indexes) |->
        At(total, indexes[k]) - At(total, indexes[k] - 1)]

\* hopkins_api.py 160-163: sum(new_cases[index - day] for day in range(days))
RECURSIVE SumBack(_, _, _)
SumBack(new_cases, index, days) ==
  IF days = 0 THEN 0
  ELSE At(new_cases, index - (days - 1)) + SumBack(new_cases, index, days - 1)

\* a loop that starts one index early (range(days - 2, ...)), so that its
\* first window reaches new_cases[-1]
averages_from_one_index_early(data, days) ==
  LET new_cases == new_cases_each_day(data)
      indexes == IF Len(new_cases) = 0 THEN <<>>
                 ELSE Range(days - 2, Len(new_cases))
  IN [k \in 1..Len(indexes) |->
        TrueDiv(SumBack(new_cases, indexes[k], days), days)]

\* hopkins_api.py 149-167
new_cases_x_days_averages(data, days) ==
  LET new_cases == new_cases_each_day(data)
      indexes == Range(days - 1, Len(new_cases))
  IN [k \in 1..Len(indexes) |->
        TrueDiv(SumBack(new_cases, indexes[k], days), days)]

\* hopkins_api.py 169-177
new_cases_weekly_averages(data) == new_cases_x_days_averages(data, 7)

\* isinstance(r, complex): a negative float to the power 4/7
IsComplex(r) == r.base.num < 0

\* the guards in the order of api.py: the previous week is tested first
r_value_testing_previous_week_first(cur_week, prev_week) ==
  IF prev_week = Zero THEN OneR
  ELSE IF cur_week = Zero THEN ZeroR
  ELSE LET cur_r_value == PowFourSevenths(FloatDiv(cur_week, prev_week))
       IN IF IsComplex(cur_r_value) THEN ZeroR ELSE cur_r_value

\* hopkins_api.py 194-204
r_value_of_weeks(cur_week, prev_week) ==
  IF cur_week = Zero THEN ZeroR
  ELSE IF prev_week = Zero THEN OneR
  ELSE LET cur_r_value == PowFourSevenths(FloatDiv(cur_week, prev_week))
       IN IF IsComplex(cur_r_value) THEN ZeroR ELSE cur_r_value

\* the previous week read six days back instead of seven
r_values_six_days_back(data) ==
  LET weekly_averages == new_cases_weekly_averages(data)
      indexes == Range(7, Len(weekly_averages))
  IN [k \in 1..Len(indexes) |->
        r_value_of_weeks(At(weekly_averages, indexes[k]),
                         At(weekly_averages, indexes[k] - 6))]

\* a loop that starts at index 6 instead of 7, so that its first previous week
\* is weekly_averages[-1]
r_values_from_index_six(data) ==
  LET weekly_averages == new_cases_weekly_averages(data)
      indexes == IF Len(weekly_averages) = 0 THEN <<>>
                 ELSE Range(6, Len(weekly_averages))
  IN [k \in 1..Len(indexes) |->
        r_value_of_weeks(At(weekly_averages, indexes[k]),
                         At(weekly_averages, indexes[k] - 7))]

\* hopkins_api.py 179-208
r_values_each_day(data) ==
  LET weekly_averages == new_cases_weekly_averages(data)
      indexes == Range(7, Len(weekly_averages))
  IN [k \in 1..Len(indexes) |->
        r_value_of_weeks(At(weekly_averages, indexes[k]),
                         At(weekly_averages, indexes[k] - 7))]

\* ------------------------------- hopkins_api.py: the downloaded sheets
\* a cell of _content after __change_types (hopkins_api.py 285-306): an int, a
\* float, a non-empty string, or None for the empty token
IntCell(n) == [t |-> "int", n |-> n, s |-> ""]
FloatCell(n) == [t |-> "float", n |-> n, s |-> ""]
StrCell(s) == [t |-> "str", n |-> 0, s |-> s]
NoneCell == [t |-> "none", n |-> 0, s |-> ""]

\* a token of the csv is the sequence of its characters, each a one-character
\* string
Digits == {"0", "7"}

DigitValue(c) == IF c = "7" THEN 7 ELSE 0

\* int() of a string of digits
RECURSIVE DecimalValue(_)
DecimalValue(s) ==
  IF Len(s) = 0 THEN 0
  ELSE 10 * DecimalValue(SubSeq(s, 1, Len(s) - 1)) + DigitValue(s[Len(s)])

RECURSIVE PowerOfTen(_)
PowerOfTen(n) == IF n = 0 THEN 1 ELSE 10 * PowerOfTen(n - 1)

\* str.strip(): int() and float() ignore white space around the number
RECURSIVE LStrip(_)
LStrip(s) == IF Len(s) > 0 /\ s[1] = " " THEN LStrip(Tail(s)) ELSE s

RECURSIVE RStrip(_)
RStrip(s) ==
  IF Len(s) > 0 /\ s[Len(s)] = " " THEN RStrip(SubSeq(s, 1, Len(s) - 1)) ELSE s

Strip(s) == RStrip(LStrip(s))

AllDigits(s) == \A i \in 1..Len(s) : s[i] \in Digits

\* the number without its sign, and the sign
Unsigned(s) == IF Len(s) > 0 /\ s[1] = "-" THEN Tail(s) ELSE s
SignOf(s) == IF Len(s) > 0 /\ s[1] = "-" THEN -1 ELSE 1

\* Python's int(item) for a string: ok is FALSE where it raises ValueError
ParseInt(item) ==
  LET s == Strip(item)
      body == Unsigned(s)
  IN IF Len(body) >= 1 /\ AllDigits(body)
       THEN [ok |-> TRUE, val |-> SignOf(s) * DecimalValue(body)]
       ELSE [ok |-> FALSE, val |-> 0]

\* Python's float(item) for a string of these characters: digits with at most
\* one point and at least one digit; ok is FALSE where it raises ValueError
ParseFloat(item) ==
  LET s == Strip(item)
      body == Unsigned(s)
      points == {i \in 1..Len(body) : body[i] = "."}
      point == IF points = {} THEN Len(body) + 1
               ELSE CHOOSE i \in points : \A j \in points : i <= j
      whole == SubSeq(body, 1, point - 1)
      fraction == SubSeq(body, point + 1, Len(body))
  IN IF AllDigits(whole) /\ AllDigits(fraction)
          /\ Len(whole) + Len(fraction) >= 1
       THEN [ok |-> TRUE,
             val |-> Reduce(SignOf(s) * (DecimalValue(whole)
                                           * PowerOfTen(Len(fraction))
                                         + DecimalValue(fraction)),
                            PowerOfTen(Len(fraction)))]
       ELSE [ok |-> FALSE, val |-> Zero]

\* a conversion that tries float() before int()
change_item_type_float_first(item) ==
  IF ParseFloat(item).ok THEN FloatCell(ParseFloat(item).val)
  ELSE IF ParseInt(item).ok THEN IntCell(ParseInt(item).val)
  ELSE IF Len(item) > 0 THEN StrCell(item)
  ELSE NoneCell

\* hopkins_api.py 285-306: the function ends without a return, with None, when
\* str(item) is empty
change_item_type(item) ==
  IF ParseInt(item).ok THEN IntCell(ParseInt(item).val)
  ELSE IF ParseFloat(item).ok THEN FloatCell(ParseFloat(item).val)
  ELSE IF Len(item) > 0 THEN StrCell(item)
  ELSE NoneCell

\* __change_item_type(item) run on one token
ChangeItemType ==
  /\ pc = "token"
  /\ answer' = [op |-> "change_item_type", val |-> change_item_type(args)]
  /\ pc' = "answered"
  /\ UNCHANGED <<mainVars, apiVars, hopkinsVars>>

\* a header is the sequence of its '/'-separated parts; a part is the int it
\* parses as, or text that int() rejects
IntPart(n) == [isint |-> TRUE, val |-> n]
TextPart == [isint |-> FALSE, val |-> 0]
DateHeader(month, day, year) == <<IntPart(month), IntPart(day), IntPart(year)>>

\* hopkins_api.py 527-528: int(today.year / 100)
Century == 20

NoDate == [ok |-> FALSE, year |-> 0, month |-> 0, day |-> 0]

IsLeapYear(year) == year % 4 = 0 /\ (year % 100 # 0 \/ year % 400 = 0)

DaysInMonth(year, month) ==
  IF month = 2 THEN (IF IsLeapYear(year) THEN 29 ELSE 28)
  ELSE IF month \in {4, 6, 9, 11} THEN 30 ELSE 31

\* datetime.date(year, month, day) raises ValueError outside these ranges
IsValidDate(year, month, day) ==
  /\ year >= 1 /\ year <= 9999
  /\ month >= 1 /\ month <= 12
  /\ day >= 1 /\ day <= DaysInMonth(year, month)

\* hopkins_api.py 514-535: None (NoDate) whenever anything raises
string_to_date(date_string) ==
  IF Len(date_string) = 3 /\ \A i \in 1..3 : date_string[i].isint
    THEN LET month == date_string[1].val
             day == date_string[2].val
             year == date_string[3].val + Century * 100
         IN IF IsValidDate(year, month, day)
              THEN [ok |-> TRUE, year |-> year, month |-> month, day |-> day]
              ELSE NoDate
    ELSE NoDate

\* the elements of s at the indexes of the set I, in the order of s
RECURSIVE Pick(_, _, _)
Pick(s, I, i) ==
  IF i > Len(s) THEN <<>>
  ELSE (IF i \in I THEN <<s[i]>> ELSE <<>>) \o Pick(s, I, i + 1)

\* hopkins_api.py 495-512 (indexes from 1)
generate_dates(headers) ==
  LET parsed == [i \in 1..Len(headers) |-> string_to_date(headers[i])]
      date_indexes == {i \in 1..Len(headers) : parsed[i].ok}
  IN [dates |-> Pick(parsed, date_indexes, 1),
      not_date_indexes |-> (1..Len(headers)) \ date_indexes]

\* __generate_dates() run on the headers of a sheet
GenerateDates ==
  /\ pc = "headers"
  /\ answer' = [op |-> "generate_dates", val |-> generate_dates(args)]
  /\ pc' = "answered"
  /\ UNCHANGED <<mainVars, apiVars, hopkinsVars>>

\* hopkins_api.py 373-400: next(dates) raises StopIteration when the row has
\* more value cells than there are dates
generate_row_data(row_data, dates, not_date_indexes) ==
  LET values == Pick(row_data, (1..Len(row_data)) \ not_date_indexes, 1)
  IN IF Len(values) > Len(dates) THEN [ok |-> FALSE, data |-> <<>>]
     ELSE [ok |-> TRUE,
           data |-> [k \in 1..Len(values) |->
                       [value |-> values[k], date |-> dates[k]]]]

\* hopkins_api.py 353-371: row_data[id_index] raises IndexError on a short row
generate_date_data(sheet, id_index) ==
  LET gd == generate_dates(sheet.headers)
      row(i) == sheet.content[i]
      made(i) == generate_row_data(row(i), gd.dates, gd.not_date_indexes)
      n == Len(sheet.content)
  IN IF \E i \in 1..n : Len(row(i)) <= id_index \/ ~made(i).ok
       THEN [ok |-> FALSE, data |-> <<>>]
       ELSE [ok |-> TRUE,
             data |-> [i \in 1..n |->
                         [id |-> row(i)[id_index + 1], data |-> made(i).data]]]

\* list(dict.fromkeys(s)): the elements of s, each at its first place
RECURSIVE Dedupe(_)
Dedupe(s) ==
  IF Len(s) = 0 THEN <<>>
  ELSE LET init == Dedupe(SubSeq(s, 1, Len(s) - 1))
           last == s[Len(s)]
       IN IF \E i \in 1..Len(init) : init[i] = last THEN init
          ELSE Append(init, last)

\* hopkins_api.py 462-466: the first value of `data` on `date`, as a sequence of
\* no or one cell
FirstOnDate(data, date) ==
  IF \E i \in 1..Len(data) : data[i].date = date
    THEN <<data[CHOOSE i \in 1..Len(data) :
                  /\ data[i].date = date
                  /\ \A j \in 1..(i - 1) : data[j].date # date].value>>
    ELSE <<>>

\* a merge over the dates of the first row only
merge_over_first_row_dates(data_one, data_two) ==
  LET one_dates == [i \in 1..Len(data_one.data) |-> data_one.data[i].date]
      dates == Dedupe(one_dates)
      found(date) == FirstOnDate(data_one.data, date)
                       \o FirstOnDate(data_two.data, date)
      value(date) == SumSeq([k \in 1..Len(found(date)) |-> found(date)[k].n])
  IN IF \E i \in 1..Len(dates) : \E k \in 1..Len(found(dates[i])) :
          found(dates[i])[k].t \notin {"int", "float"}
       THEN [ok |-> FALSE, data |-> <<>>]
       ELSE [ok |-> TRUE,
             data |-> [i \in 1..Len(dates) |->
                         [date |-> dates[i], value |-> IntCell(value(dates[i]))]]]

\* a merge that overwrites instead of adding: each date keeps the value of the
\* first row that has it
merge_keeping_first_value(data_one, data_two) ==
  LET one_dates == [i \in 1..Len(data_one.data) |-> data_one.data[i].date]
      two_dates == [i \in 1..Len(data_two.data) |-> data_two.data[i].date]
      dates == Dedupe(one_dates \o two_dates)
      found(date) == FirstOnDate(data_one.data, date)
                       \o FirstOnDate(data_two.data, date)
      value(date) == found(date)[1].n
  IN IF \E i \in 1..Len(dates) : \E k \in 1..Len(found(dates[i])) :
          found(dates[i])[k].t \notin {"int", "float"}
       THEN [ok |-> FALSE, data |-> <<>>]
       ELSE [ok |-> TRUE,
             data |-> [i \in 1..Len(dates) |->
                         [date |-> dates[i], value |-> IntCell(value(dates[i]))]]]

\* hopkins_api.py 439-493; `value += cell` raises TypeError unless the cell is a
\* number
merge_same_ids(data_one, data_two) ==
  LET one_dates == [i \in 1..Len(data_one.data) |-> data_one.data[i].date]
      two_dates == [i \in 1..Len(data_two.data) |-> data_two.data[i].date]
      dates == Dedupe(one_dates \o two_dates)
      found(date) == FirstOnDate(data_one.data, date)
                       \o FirstOnDate(data_two.data, date)
      value(date) == SumSeq([k \in 1..Len(found(date)) |-> found(date)[k].n])
  IN IF \E i \in 1..Len(dates) : \E k \in 1..Len(found(dates[i])) :
          found(dates[i])[k].t \notin {"int", "float"}
       THEN [ok |-> FALSE, data |-> <<>>]
       ELSE [ok |-> TRUE,
             data |-> [i \in 1..Len(dates) |->
                         [date |-> dates[i], value |-> IntCell(value(dates[i]))]]]

\* hopkins_api.py 410-435.  `data` holds the row dicts, which line 422 updates in
\* place; new_data holds indexes into data, in the order of the new list.
RECURSIVE SquashFrom(_, _, _, _)
SquashFrom(data, i, visited_ids, new_data) ==
  IF i > Len(data) THEN [ok |-> TRUE, data |-> [k \in 1..Len(new_data) |-> data[new_data[k]]]]
  ELSE LET cur_data == data[i] IN
    IF cur_data.id \in visited_ids
      THEN LET already_visited_index ==
                 CHOOSE k \in 1..Len(new_data) :
                   /\ data[new_data[k]].id = cur_data.id
                   /\ \A j \in 1..(k - 1) : data[new_data[j]].id # cur_data.id
               \* line 424 indexes `data`, not `new_data`
               merged == merge_same_ids(cur_data, data[already_visited_index])
           IN IF ~merged.ok THEN [ok |-> FALSE, data |-> <<>>]
              ELSE SquashFrom([data EXCEPT ![i].data = merged.data], i + 1,
                              visited_ids,
                              Append(RemoveAt(new_data, already_visited_index), i))
      ELSE SquashFrom(data, i + 1, visited_ids \cup {cur_data.id},
                      Append(new_data, i))

\* hopkins_api.py 402-437
squash_data_by_id(data) == SquashFrom(data, 1, {}, <<>>)

\* __merge_same_ids(data_one, data_two) run on two rows
MergeSameIds ==
  /\ pc = "rows"
  /\ LET merged == merge_same_ids(args.data_one, args.data_two)
     IN /\ answer' = [op |-> "merge_same_ids", val |-> merged.data]
        /\ pc' = IF merged.ok THEN "answered" ELSE "failed"
  /\ UNCHANGED <<mainVars, apiVars, hopkinsVars>>

\* __squash_data_by_id(data) run on a table of rows
SquashDataById ==
  /\ pc = "table"
  /\ LET squashed == squash_data_by_id(args)
     IN /\ answer' = [op |-> "squash_data_by_id", val |-> squashed.data]
        /\ pc' = IF squashed.ok THEN "answered" ELSE "failed"
  /\ UNCHANGED <<mainVars, apiVars, hopkinsVars>>

\* DateHistoryCvsApi.__init__, hopkins_api.py 336-351, and all_data (537-539)
DateHistory(sheet, id_index) ==
  LET date_data == generate_date_data(sheet, id_index)
  IN IF ~date_data.ok THEN date_data ELSE squash_data_by_id(date_data.data)

Min(a, b) == IF a < b THEN a ELSE b

\* hopkins_api.py 623-644: both zips pair the rows, and the days of a row, by
\* position and stop at the shortest
combine_data(confirmed, deaths, recovered) ==
  LET rows == Min(Len(confirmed), Min(Len(deaths), Len(recovered)))
      days(r) == Min(Len(confirmed[r].data),
                     Min(Len(deaths[r].data), Len(recovered[r].data)))
  IN [r \in 1..rows |->
        [country |-> confirmed[r].id,
         data |-> [d \in 1..days(r) |->
                     [date |-> confirmed[r].data[d].date,
                      confirmed |-> confirmed[r].data[d].value,
                      deaths |-> deaths[r].data[d].value,
                      recovered |-> recovered[r].data[d].value]]]]

\* hopkins_api.py 646-650
countries(data) == [r \in 1..Len(data) |-> data[r].country]

\* the Python value of a number cell
CellValue(cell) == cell.n

\* a lookup that takes the first row whatever its country
country_data_of_first_row(data, country) ==
  [d \in 1..Len(data[1].data) |->
     CountryDay(data[1].data[d].date,
                CellValue(data[1].data[d].confirmed),
                CellValue(data[1].data[d].deaths),
                CellValue(data[1].data[d].recovered))]

\* hopkins_api.py 655-663: the days of the first row of that country
country_data(data, country) ==
  LET r == CHOOSE r \in 1..Len(data) :
             /\ data[r].country = StrCell(country)
             /\ \A q \in 1..(r - 1) : data[q].country # StrCell(country)
  IN [d \in 1..Len(data[r].data) |->
        CountryDay(data[r].data[d].date,
                   CellValue(data[r].data[d].confirmed),
                   CellValue(data[r].data[d].deaths),
                   CellValue(data[r].data[d].recovered))]

\* ----------------------------- CovidHistoryDatabase: the operations
\* CovidHistoryDatabase(), hopkins_api.py 615-621, with id_index = 1 (591-610)
BuildDatabase ==
  /\ pc = "downloaded"
  /\ LET confirmed == DateHistory(sheets.confirmed, 1)
         deaths == DateHistory(sheets.deaths, 1)
         recovered == DateHistory(sheets.recovered, 1)
     IN IF confirmed.ok /\ deaths.ok /\ recovered.ok
          THEN /\ db' = combine_data(confirmed.data, deaths.data, recovered.data)
               /\ pc' = "built"
          ELSE /\ db' = db
               /\ pc' = "failed"
  /\ UNCHANGED <<mainVars, apiVars, sheets, series, args, answer>>

\* CovidHistoryDatabase.country(name), hopkins_api.py 662-663
Country(name) ==
  /\ pc = "built"
  /\ \E r \in 1..Len(db) : db[r].country = StrCell(name)
  /\ series' = country_data(db, name)
  /\ pc' = "country"
  /\ UNCHANGED <<mainVars, apiVars, sheets, db, args, answer>>

\* country(name) for a name no row has: next() raises StopIteration
CountryUnknown(name) ==
  /\ pc = "built"
  /\ \A r \in 1..Len(db) : db[r].country # StrCell(name)
  /\ pc' = "failed"
  /\ UNCHANGED <<mainVars, apiVars, hopkinsVars, answer>>

\* --------------------------------------- CountryData: the operations
NewCasesEachDay ==
  /\ pc = "country"
  /\ answer' = [op |-> "new_cases_each_day", val |-> new_cases_each_day(series)]
  /\ pc' = "answered"
  /\ UNCHANGED <<mainVars, apiVars, hopkinsVars>>

NewCasesWeeklyAverages ==
  /\ pc = "country"
  /\ answer' = [op |-> "new_cases_weekly_averages",
                val |-> new_cases_weekly_averages(series)]
  /\ pc' = "answered"
  /\ UNCHANGED <<mainVars, apiVars, hopkinsVars>>

RValuesEachDay ==
  /\ pc = "country"
  /\ answer' = [op |-> "r_values_each_day", val |-> r_values_each_day(series)]
  /\ pc' = "answered"
  /\ UNCHANGED <<mainVars, apiVars, hopkinsVars>>

NextCountry ==
  \/ NewCasesEachDay
  \/ NewCasesWeeklyAverages
  \/ RValuesEachDay

\* ------------------------------------------------------------- the inputs
SeqsUpTo(S, n) == UNION {[1..k -> S] : k \in 0..n}

\* records of several provinces, in any order of dates
ProvinceRecords ==
  {DayRecord(d, p, c, 0, 0) : d \in Dates, p \in Provinces, c \in 0..MaxVal}

\* the (confirmed, deaths, recovered) counts of one day of one province
DayCounts ==
  {t \in (0..MaxVal) \X MinorCounts \X MinorCounts : t[2] + t[3] <= t[1]}

\* one province, one record per date, in the order of the dates
SingleProvinceSeries ==
  {[i \in 1..Len(s) |-> DayRecord(i, "a", s[i][1], s[i][2], s[i][3])] :
     s \in SeqsUpTo(DayCounts, MaxRecords)}

ConfirmedSeries(s) == [i \in 1..Len(s) |-> DayRecord(i, "a", s[i], 0, 0)]

InitApi(inputs) ==
  /\ json_info \in inputs
  /\ caller_data = json_info
  /\ raw = <<>>
  /\ log = <<>>
  /\ last_count = 0
  /\ sheets = <<>>
  /\ db = <<>>
  /\ series = <<>>
  /\ args = <<>>
  /\ NoMain
  /\ answer = NoAnswer
  /\ pc = "start"

Init ==
  InitApi(SeqsUpTo(ProvinceRecords, MaxRecords)
            \cup SingleProvinceSeries
            \cup {ConfirmedSeries(ScenarioConfirmed)})

Spec == Init /\ [][NextApi]_vars

\* ------------------------------------------------ the long daily series
\* the daily changes of a series of phases: lens[i] days of change ds[i] each
RECURSIVE Expand(_, _)
Expand(lens, ds) ==
  IF Len(lens) = 0 THEN <<>>
  ELSE [k \in 1..lens[1] |-> ds[1]] \o Expand(Tail(lens), Tail(ds))

\* the cumulative counts that start at `first` and change by `changes`
Cumulative(first, changes) ==
  [i \in 1..(Len(changes) + 1) |-> first + SumSeq(SubSeq(changes, 1, i - 1))]

PhaseChanges ==
  UNION {
    {Expand(lens, ds) :
       lens \in {l \in [1..p -> 1..(MaxDays - 1)] : SumSeq(l) <= MaxDays - 1},
       ds \in {d \in [1..p -> Deltas] : \A i \in 1..(p - 1) : d[i] # d[i + 1]}} :
    p \in 1..MaxPhases}

\* the cumulative confirmed counts of up to MaxDays days, never negative
LongConfirmed ==
  {<<>>, <<FirstConfirmed>>} \cup
  {c \in {Cumulative(FirstConfirmed, ch) : ch \in PhaseChanges} :
     \A i \in 1..Len(c) : c[i] >= 0}

CountrySeries(c) == [i \in 1..Len(c) |-> CountryDay(i, c[i], 0, 0)]

\* a CountryData object over a long series
InitCountry ==
  /\ json_info = <<>>
  /\ caller_data = <<>>
  /\ raw = <<>>
  /\ log = <<>>
  /\ last_count = 0
  /\ sheets = <<>>
  /\ db = <<>>
  /\ series \in {CountrySeries(c) : c \in LongConfirmed}
  /\ args = <<>>
  /\ NoMain
  /\ answer = NoAnswer
  /\ pc = "country"

SpecCountry == InitCountry /\ [][NextCountry]_vars

\* the daily changes of a series whose weekly average jumps from very small to
\* very large
JumpDeltas == {0, 1, 1000}

JumpChanges ==
  UNION {
    {Expand(lens, ds) :
       lens \in {l \in [1..p -> 1..(MaxDays - 1)] : SumSeq(l) <= MaxDays - 1},
       ds \in {d \in [1..p -> JumpDeltas] : \A i \in 1..(p - 1) : d[i] # d[i + 1]}} :
    p \in 1..MaxPhases}

JumpConfirmed == {Cumulative(FirstConfirmed, ch) : ch \in JumpChanges}

\* a CountryData object over a series with jumps
InitCountryJumps ==
  /\ json_info = <<>>
  /\ caller_data = <<>>
  /\ raw = <<>>
  /\ log = <<>>
  /\ last_count = 0
  /\ sheets = <<>>
  /\ db = <<>>
  /\ series \in {CountrySeries(c) : c \in JumpConfirmed}
  /\ args = <<>>
  /\ NoMain
  /\ answer = NoAnswer
  /\ pc = "country"

SpecCountryJumps == InitCountryJumps /\ [][NextCountry]_vars

\* multipleDaysData over a long series of one province
InitApiSeries == InitApi({ConfirmedSeries(c) : c \in LongConfirmed})

SpecApiSeries == InitApiSeries /\ [][NextApi]_vars

\* ------------------------------------------------- the downloaded sheets
\* the country names of the sheets, and the names a client asks for
CountryNames == {"X", "Y"}
QueryNames == CountryNames \cup {"Z"}
\* Province/State, Country/Region, Lat, Long
IdentityHeaders == <<<<TextPart, TextPart>>, <<TextPart, TextPart>>,
                     <<TextPart>>, <<TextPart>>>>
\* 1/22/20, 1/23/20
DateHeaders == <<DateHeader(1, 22, 20), DateHeader(1, 23, 20)>>
SheetCounts == {0, 1}

CountsPerDate == [1..Len(DateHeaders) -> SheetCounts]

SheetRow(name, counts) ==
  <<NoneCell, StrCell(name), FloatCell(0), FloatCell(0)>>
    \o [k \in 1..Len(counts) |-> IntCell(counts[k])]

Sheet(rows) == [headers |-> IdentityHeaders \o DateHeaders, content |-> rows]

\* csv.reader gives [] for a blank line of the download
BlankRow == <<>>

\* the confirmed sheet: up to MaxRows rows, any country and counts on each, or
\* a blank line
ConfirmedSheets ==
  {Sheet(rows) :
     rows \in SeqsUpTo({SheetRow(n, c) : n \in CountryNames, c \in CountsPerDate}
                         \cup {BlankRow},
                       MaxRows)}

\* a sheet with the rows of countries of `sheet`, each with the counts `counts`
SheetLike(sheet, counts) ==
  Sheet([r \in 1..Len(sheet.content) |->
           IF sheet.content[r] = BlankRow THEN BlankRow
           ELSE SheetRow(sheet.content[r][2].s, counts)])

NextDatabase ==
  \/ BuildDatabase
  \/ \E name \in QueryNames : Country(name)
  \/ \E name \in QueryNames : CountryUnknown(name)
  \/ NewCasesEachDay
  \/ NewCasesWeeklyAverages
  \/ RValuesEachDay

InitDatabase ==
  /\ json_info = <<>>
  /\ caller_data = <<>>
  /\ raw = <<>>
  /\ log = <<>>
  /\ last_count = 0
  /\ \E confirmed \in ConfirmedSheets : \E d, r \in CountsPerDate :
       sheets = [confirmed |-> confirmed,
                 deaths |-> SheetLike(confirmed, d),
                 recovered |-> SheetLike(confirmed, r)]
  /\ db = <<>>
  /\ series = <<>>
  /\ args = <<>>
  /\ NoMain
  /\ answer = NoAnswer
  /\ pc = "downloaded"

SpecDatabase == InitDatabase /\ [][NextDatabase]_vars

\* a download without the Country/Region column: Province/State, Lat, Long and
\* the date columns, with at least one row
HeadersWithoutCountry ==
  <<IdentityHeaders[1], IdentityHeaders[3], IdentityHeaders[4]>> \o DateHeaders

SheetsWithoutCountry ==
  {[headers |-> HeadersWithoutCountry, content |-> rows] :
     rows \in SeqsUpTo({RemoveAt(SheetRow("X", c), 2) : c \in CountsPerDate},
                       MaxRows) \ {<<>>}}

\* a sheet with the headers and the identity cells of `sheet`, each row with
\* the counts `counts`
SheetWithCounts(sheet, counts) ==
  [headers |-> sheet.headers,
   content |-> [r \in 1..Len(sheet.content) |->
                  LET row == sheet.content[r]
                  IN IF row = BlankRow THEN BlankRow
                     ELSE SubSeq(row, 1, Len(row) - Len(counts))
                            \o [k \in 1..Len(counts) |-> IntCell(counts[k])]]]

\* the three downloads, with or without the Country/Region column
InitSchema ==
  /\ json_info = <<>>
  /\ caller_data = <<>>
  /\ raw = <<>>
  /\ log = <<>>
  /\ last_count = 0
  /\ \E confirmed \in ConfirmedSheets \cup SheetsWithoutCountry :
       \E d, r \in CountsPerDate :
         sheets = [confirmed |-> confirmed,
                   deaths |-> SheetWithCounts(confirmed, d),
                   recovered |-> SheetWithCounts(confirmed, r)]
  /\ db = <<>>
  /\ series = <<>>
  /\ args = <<>>
  /\ NoMain
  /\ answer = NoAnswer
  /\ pc = "downloaded"

SpecSchema == InitSchema /\ [][NextDatabase]_vars

\* ------------------------------------- the rows of DateHistoryCvsApi
\* the date of the column 1/<day>/20
DateOf(day) == string_to_date(DateHeader(1, day, 20))

RowDates == {DateOf(22), DateOf(23), DateOf(24)}

\* a count, or None for an empty cell of the download
RowCells == {IntCell(1), IntCell(2), NoneCell}

\* the sequences of up to n different elements of S
DistinctSeqs(S, n) ==
  {s \in SeqsUpTo(S, n) : \A i, j \in 1..Len(s) : i # j => s[i] # s[j]}

\* one row as __generate_date_data builds it: an id and a value for each date
Row(id, dates, cells) ==
  [id |-> StrCell(id),
   data |-> [k \in 1..Len(dates) |-> [value |-> cells[k], date |-> dates[k]]]]

\* the rows of one id with up to n dates, in any order
RowsOf(id, n) ==
  UNION {{Row(id, dates, cells) : cells \in [1..Len(dates) -> RowCells]} :
           dates \in DistinctSeqs(RowDates, n)}

\* spec.md section 8: two rows for "Canada", dates [d1, d2] values [5, 7] and
\* dates [d1, d3] values [3, 9]
ScenarioRows ==
  [data_one |-> Row("Canada", <<DateOf(22), DateOf(23)>>, <<IntCell(5), IntCell(7)>>),
   data_two |-> Row("Canada", <<DateOf(22), DateOf(24)>>, <<IntCell(3), IntCell(9)>>)]

InitHelper(inputs, at) ==
  /\ json_info = <<>>
  /\ caller_data = <<>>
  /\ raw = <<>>
  /\ log = <<>>
  /\ last_count = 0
  /\ sheets = <<>>
  /\ db = <<>>
  /\ series = <<>>
  /\ args \in inputs
  /\ NoMain
  /\ answer = NoAnswer
  /\ pc = at

InitMerge ==
  InitHelper({[data_one |-> one, data_two |-> two] :
                one \in RowsOf("X", MaxRowDates), two \in RowsOf("X", MaxRowDates)}
               \cup {ScenarioRows},
             "rows")

SpecMerge == InitMerge /\ [][MergeSameIds]_vars

\* the parts of the headers: text, or the numbers of a month, a day, a
\* two-digit year and a four-digit year
HeaderParts ==
  {TextPart, IntPart(1), IntPart(2), IntPart(20), IntPart(30), IntPart(2020)}

\* the headers of a sheet: the identity columns and one further column
InitHeaders ==
  InitHelper({IdentityHeaders \o <<h>> :
                h \in SeqsUpTo(HeaderParts, MaxParts) \ {<<>>}},
             "headers")

SpecHeaders == InitHeaders /\ [][GenerateDates]_vars

\* the characters of the tokens: digits, a sign, a point, a space, a letter
TokenChars == Digits \cup {"-", ".", " ", "x"}

InitToken == InitHelper(SeqsUpTo(TokenChars, MaxTokenLen), "token")

SpecToken == InitToken /\ [][ChangeItemType]_vars

\* the rows of a table: every row has a value for each of the two date columns
TableRows ==
  {Row(id, <<DateOf(22), DateOf(23)>>, cells) :
     id \in CountryNames, cells \in [1..2 -> RowCells]}

InitSquash == InitHelper(SeqsUpTo(TableRows, MaxTableRows), "table")

SpecSquash == InitSquash /\ [][SquashDataById]_vars

\* ------------------------------------------------------------- the claims
Constructed == pc \in {"constructed", "repaired", "answered"}

SetMax(S) == CHOOSE x \in S : \A y \in S : y <= x

\* the input has, after normalisation, a monitored value below the one of the
\* day before
GivenDecrease ==
  LET n == Records(normalize_data(json_info))
  IN \E i \in 2..Len(n) : \E key \in Monitored : n[i][key] < n[i - 1][key]

\* C1: after construction the stored days are non-decreasing in Confirmed,
\* Deaths and Recovered, in stored order
C1_StoredDaysMonotonic ==
  Constructed =>
    \A key \in Monitored : \A i \in 2..Len(raw) : raw[i][key] >= raw[i - 1][key]

C1_Witness ==
  /\ pc = "constructed"
  /\ GivenDecrease
  /\ Len(raw) < Len(json_info)
  /\ Len(raw) >= 2

\* C3: each monitored field of the stored days is the running maximum of the
\* (normalised) input, every other value is kept; [10, 10, 8, 15] becomes
\* [10, 10, 10, 15] with new cases [0, 0, 5]
C3_RunningMaximum ==
  LET n == Records(normalize_data(json_info))
  IN /\ pc = "constructed" =>
          /\ Len(raw) = Len(n)
          /\ \A i \in 1..Len(raw) : \A key \in DOMAIN raw[i] :
               raw[i][key] = IF key \in Monitored
                               THEN SetMax({n[j][key] : j \in 1..i})
                               ELSE n[i][key]
     /\ (Constructed /\ json_info = ConfirmedSeries(ScenarioConfirmed)) =>
          /\ [i \in 1..Len(raw) |-> raw[i].Confirmed] = <<10, 10, 10, 15>>
          /\ answer.op = "get_cases_a_day_list" => answer.val = <<0, 0, 5>>

C3_Witness ==
  /\ pc = "answered"
  /\ answer.op = "get_cases_a_day_list"
  /\ json_info = ConfirmedSeries(ScenarioConfirmed)
  /\ last_count = 1

\* C4: a second run of the repair, on its own output, changes no value and
\* counts (and reports) nothing
C4_RepairIdempotent ==
  [][RepairAgain => (raw' = raw /\ last_count' = 0 /\ log' = log)]_vars

C4_Witness ==
  /\ pc = "repaired"
  /\ Len(log) = 1
  /\ log[1].count >= 2
  /\ last_count = 0

\* the confirmed counts of the CountryData object, read off its day records
Confirmed(i) == series[i].confirmed

\* the new cases of day i+1 of the series (i from 1), from the day records
NewCasesOf(i) == Confirmed(i + 1) - Confirmed(i)

Answered(op) == pc = "answered" /\ answer.op = op

NonDecreasing(s) == \A i \in 2..Len(s) : s[i] >= s[i - 1]

\* C2: for every country series that country() returns, confirmed_each_day,
\* deaths_each_day and recovered_each_day are non-decreasing, and no element
\* of new_cases_each_day is negative
C2_CountrySeriesMonotonic ==
  /\ pc \in {"country", "answered"} =>
       /\ NonDecreasing(confirmed_each_day(series))
       /\ NonDecreasing(deaths_each_day(series))
       /\ NonDecreasing(recovered_each_day(series))
  /\ Answered("new_cases_each_day") =>
       \A i \in 1..Len(answer.val) : answer.val[i] >= 0

\* C5: new_cases_each_day has len(S) - 1 elements, element i-1 is
\* confirmed[i] - confirmed[i-1], and the elements sum to the last confirmed
\* value minus the first
C5_NewCasesEachDay ==
  (Answered("new_cases_each_day") /\ Len(series) >= 1) =>
    /\ Len(answer.val) = Len(series) - 1
    /\ \A i \in 1..(Len(series) - 1) : answer.val[i] = NewCasesOf(i)
    /\ SumSeq(answer.val) = Confirmed(Len(series)) - Confirmed(1)

C5_Witness ==
  /\ Answered("new_cases_each_day")
  /\ Len(series) >= 3
  /\ \E i \in 1..Len(answer.val) : answer.val[i] < 0
  /\ \E i \in 1..Len(answer.val) : answer.val[i] > 0
  /\ SumSeq(answer.val) # 0

\* C6: element k of new_cases_weekly_averages is the mean of the seven new-case
\* values k .. k+6, and there are max(0, len(new_cases_each_day) - 6) elements
C6_WeeklyAverages ==
  Answered("new_cases_weekly_averages") =>
    LET n == IF Len(series) >= 1 THEN Len(series) - 1 ELSE 0
    IN /\ Len(answer.val) = IF n > 6 THEN n - 6 ELSE 0
       /\ \A k \in 1..Len(answer.val) :
            /\ answer.val[k].den > 0
            /\ 7 * answer.val[k].num =
                 answer.val[k].den *
                   SumSeq([j \in 1..7 |-> NewCasesOf(k + j - 1)])

C6_Witness ==
  /\ Answered("new_cases_weekly_averages")
  /\ Len(answer.val) >= 3
  /\ answer.val[1] # answer.val[2]
  /\ answer.val[1].den = 7
  /\ NewCasesOf(1) # NewCasesOf(Len(series) - 1)

\* the weekly averages of the two windows of the k-th R value (k from 1): the
\* seven new-case values that end at day k+14, and the seven before them
CurWeek(k) == TrueDiv(Confirmed(k + 14) - Confirmed(k + 7), 7)
PrevWeek(k) == TrueDiv(Confirmed(k + 7) - Confirmed(k), 7)

\* C7: in r_values_each_day a current weekly average of 0 gives 0.0, also when
\* the previous one is 0; otherwise a previous weekly average of 0 gives 1.0
C7_ZeroGuards ==
  Answered("r_values_each_day") =>
    \A k \in 1..Len(answer.val) :
      /\ CurWeek(k) = Zero => answer.val[k] = ZeroR
      /\ (CurWeek(k) # Zero /\ PrevWeek(k) = Zero) => answer.val[k] = OneR

C7_Witness ==
  /\ Answered("r_values_each_day")
  /\ \E k \in 1..Len(answer.val) : CurWeek(k) = Zero /\ PrevWeek(k) = Zero
  /\ \E k \in 1..Len(answer.val) : CurWeek(k) # Zero /\ PrevWeek(k) = Zero

\* C8: in multipleDaysData.get_r_values a current 7-day average of 0 gives the
\* R value 0, whatever the previous 7-day average is
C8_ZeroCurrentWeekGivesZero ==
  (pc = "answered" /\ answer.op = "get_r_values") =>
    \A k \in 1..Len(answer.val) :
      raw[k + 14].Confirmed = raw[k + 7].Confirmed => answer.val[k] = ZeroR

\* C9: the k-th R value is computed from the weekly averages at positions k+7
\* and k, and a series of n days has max(0, n - 14) R values
C9_RValueWindows ==
  Answered("r_values_each_day") =>
    /\ Len(answer.val) = IF Len(series) > 14 THEN Len(series) - 14 ELSE 0
    /\ \A k \in 1..Len(answer.val) :
         answer.val[k] = r_value_of_weeks(CurWeek(k), PrevWeek(k))

C9_Witness ==
  /\ Answered("r_values_each_day")
  /\ Len(answer.val) >= 2
  /\ answer.val[1] \notin {ZeroR, OneR}
  /\ answer.val[2] \notin {ZeroR, OneR, answer.val[1]}

\* C10: equal, non-zero current and previous weekly averages give 1.0
C10_EqualWeeksGiveOne ==
  Answered("r_values_each_day") =>
    \A k \in 1..Len(answer.val) :
      (CurWeek(k) = PrevWeek(k) /\ CurWeek(k) # Zero) => answer.val[k] = OneR

C10_Witness ==
  /\ Answered("r_values_each_day")
  /\ \E k \in 1..Len(answer.val) :
       /\ CurWeek(k) = PrevWeek(k)
       /\ CurWeek(k) # Zero
       /\ NewCasesOf(k) # NewCasesOf(k + 1)

\* a natural number as its digits to the base 1000, the lowest first (the
\* fourth power of a weekly total does not fit the 32 bits of a model value)
RECURSIVE Carry(_, _)
Carry(s, c) ==
  IF Len(s) = 0
    THEN (IF c = 0 THEN <<>> ELSE <<c % 1000>> \o Carry(<<>>, c \div 1000))
    ELSE <<(s[1] + c) % 1000>> \o Carry(Tail(s), (s[1] + c) \div 1000)

Big(n) == IF n = 0 THEN <<>> ELSE Carry(<<n>>, 0)

BigMul(a, b) ==
  IF Len(a) = 0 \/ Len(b) = 0 THEN <<>>
  ELSE Carry([k \in 1..(Len(a) + Len(b) - 1) |->
                SumSeq([i \in 1..Len(a) |->
                          IF k - i + 1 \in 1..Len(b) THEN a[i] * b[k - i + 1]
                                                     ELSE 0])], 0)

BigLeq(a, b) ==
  IF Len(a) # Len(b) THEN Len(a) < Len(b)
  ELSE \/ a = b
       \/ LET i == CHOOSE i \in 1..Len(a) :
                     /\ a[i] # b[i]
                     /\ \A j \in (i + 1)..Len(a) : a[j] = b[j]
          IN a[i] < b[i]

BigPow4(a) == BigMul(BigMul(a, a), BigMul(a, a))

\* 50 ** 7
FiftyToTheSeventh ==
  BigMul(BigPow4(Big(50)), BigMul(Big(50), BigMul(Big(50), Big(50))))

\* the R value b ** (4/7) is a real number r with 0 <= r <= 50:
\* b >= 0 and b ** 4 <= 50 ** 7
IsRealUpToFifty(r) ==
  /\ r.base.num >= 0
  /\ BigLeq(BigPow4(Big(r.base.num)),
            BigMul(FiftyToTheSeventh, BigPow4(Big(r.base.den))))

\* C11: every element of r_values_each_day is a real number r with
\* 0 <= r <= 50, for every series: with negative or zero new cases, or with a
\* weekly average that jumps from very small to very large
C11_RValuesUpToFifty ==
  Answered("r_values_each_day") =>
    \A k \in 1..Len(answer.val) : IsRealUpToFifty(answer.val[k])

\* the dates of a row, in its order
DatesOf(row) == [i \in 1..Len(row.data) |-> row.data[i].date]

\* the number a row has on a date, 0 when the row lacks the date
ValueOn(row, date) ==
  IF \E i \in 1..Len(row.data) : row.data[i].date = date
    THEN (CHOOSE cur \in {row.data[i] : i \in 1..Len(row.data)} :
            cur.date = date).value.n
    ELSE 0

Merged == pc = "answered" /\ answer.op = "merge_same_ids"

\* C12: merging two rows gives one entry per date of the union of their dates,
\* in first-seen order (the dates of the first row, then the new dates of the
\* second), each with the sum of the values the rows have on it, a row without
\* the date adding 0; [d1,d2] [5,7] with [d1,d3] [3,9] gives [d1,d2,d3] [8,7,9]
C12_MergeSumsOverUnion ==
  Merged =>
    LET one == args.data_one
        two == args.data_two
        later == SelectSeq(DatesOf(two),
                           LAMBDA d : \A i \in 1..Len(one.data) : one.data[i].date # d)
    IN /\ DatesOf([data |-> answer.val]) = DatesOf(one) \o later
       /\ \A i \in 1..Len(answer.val) :
            answer.val[i].value =
              IntCell(ValueOn(one, answer.val[i].date)
                        + ValueOn(two, answer.val[i].date))
       /\ args = ScenarioRows =>
            answer.val = Row("Canada", <<DateOf(22), DateOf(23), DateOf(24)>>,
                             <<IntCell(8), IntCell(7), IntCell(9)>>).data

C12_Witness ==
  /\ Merged
  /\ args = ScenarioRows
  /\ Len(answer.val) = 3

\* C13: merging a row with an identical copy of itself gives the same dates in
\* the same order, every value doubled
C13_MergeWithItselfDoubles ==
  (Merged /\ args.data_one = args.data_two) =>
    /\ DatesOf([data |-> answer.val]) = DatesOf(args.data_one)
    /\ \A i \in 1..Len(answer.val) :
         answer.val[i].value = IntCell(2 * args.data_one.data[i].value.n)

C13_Witness ==
  /\ Merged
  /\ args.data_one = args.data_two
  /\ Len(answer.val) = 2
  /\ answer.val[1].value # answer.val[2].value

\* C14: after __squash_data_by_id every id of the table is on exactly one row,
\* whose value on each date is the sum of the values of all the rows of the
\* table with that id, however many they are and wherever they stand
C14_SquashSumsAllRows ==
  (pc = "answered" /\ answer.op = "squash_data_by_id") =>
    \A id \in {args[i].id : i \in 1..Len(args)} :
      /\ Cardinality({r \in 1..Len(answer.val) : answer.val[r].id = id}) = 1
      /\ LET row == answer.val[CHOOSE r \in 1..Len(answer.val) :
                                 answer.val[r].id = id]
         IN \A d \in 1..Len(row.data) :
              row.data[d].value.n =
                SumSeq([i \in 1..Len(args) |->
                          IF args[i].id = id
                            THEN ValueOn(args[i], row.data[d].date) ELSE 0])

\* C15: when normalisation collapses records of one date, every numeric field
\* of the resulting record is the sum of that field over those records
C15_NumericFieldsSummed ==
  Constructed =>
    LET n == Records(normalize_data(json_info))
    IN \A i \in 1..Len(n) : \A key \in NumericKeys :
         n[i][key] = SumSeq([j \in 1..Len(json_info) |->
                               IF json_info[j].Date = n[i].Date
                                 THEN json_info[j][key] ELSE 0])

\* the record at position i of the input is the first one of its date
IsFirstOfDate(i) == \A j \in 1..(i - 1) : json_info[j].Date # json_info[i].Date

\* the first occurrences of the dates in the input are in increasing date order
FirstOccurrencesIncrease ==
  \A i, j \in 1..Len(json_info) :
    (i < j /\ IsFirstOfDate(i) /\ IsFirstOfDate(j)) =>
      json_info[i].Date < json_info[j].Date

\* C16: the stored days have one entry per date and are strictly increasing by
\* date whenever the first occurrences of the dates in the input are
C16_DaysStrictlyIncreasing ==
  (Constructed /\ FirstOccurrencesIncrease) =>
    /\ Cardinality({raw[i].Date : i \in 1..Len(raw)}) = Len(raw)
    /\ \A i \in 2..Len(raw) : raw[i - 1].Date < raw[i].Date

\* C17: a token becomes an int if int() accepts it, otherwise a float if
\* float() accepts it, otherwise the unchanged string if it is not empty,
\* otherwise None; every token is converted
C17_MostSpecificType ==
  Answered("change_item_type") =>
    LET item == args
        cell == answer.val
        as_int == ParseInt(item)
        as_float == ParseFloat(item)
    IN /\ cell.t \in {"int", "float", "str", "none"}
       /\ cell.t = "int" <=> as_int.ok
       /\ cell.t = "float" <=> (~as_int.ok /\ as_float.ok)
       /\ cell.t = "str" <=> (~as_int.ok /\ ~as_float.ok /\ item # <<>>)
       /\ cell.t = "none" <=> item = <<>>
       /\ cell.t = "int" => cell.n = as_int.val
       /\ cell.t = "float" => cell.n = as_float.val
       /\ cell.t = "str" => cell.s = item

C17_Witness ==
  /\ Answered("change_item_type")
  /\ args = <<" ", ".", "7">>
  /\ answer.val = FloatCell(Reduce(7, 10))

\* the header has the form month/day/two-digit-year: three numbers, the last
\* one below 100
IsMonthDayShortYear(header) ==
  /\ Len(header) = 3
  /\ \A i \in 1..3 : header[i].isint
  /\ header[3].val \in 0..99

\* C18: a header is classified as a date column only if it has the form
\* month/day/two-digit-year; every other header (a four-digit year, another
\* number of parts, a part that is no number) is an identity column
C18_OnlyShortYearHeadersAreDates ==
  Answered("generate_dates") =>
    /\ Len(answer.val.dates) + Cardinality(answer.val.not_date_indexes) = Len(args)
    /\ \A i \in 1..Len(args) :
         ~IsMonthDayShortYear(args[i]) => i \in answer.val.not_date_indexes

\* the table has no identity column for the country name: the column is
\* missing from the headers, or a row is too short to hold it
CountryColumnAbsent(sheet) ==
  \/ sheet.headers = HeadersWithoutCountry
  \/ \E r \in 1..Len(sheet.content) : Len(sheet.content[r]) < 2

\* C19: a downloaded table without the identity column of the country name is
\* never processed into observations (processing fails, surfaced to the
\* caller); no observation is built under an id taken from another column
C19_NoCountryColumnFails ==
  (\E kind \in DOMAIN sheets : CountryColumnAbsent(sheets[kind])) =>
    /\ pc \in {"downloaded", "failed"}
    /\ db = <<>>

\* the days of a row of the database, as CountryData reads them
DaysOfRow(row) ==
  [d \in 1..Len(row.data) |->
     [date |-> row.data[d].date, confirmed |-> row.data[d].confirmed.n,
      deaths |-> row.data[d].deaths.n, recovered |-> row.data[d].recovered.n]]

\* C20: country(name) for a name that is not in countries() ends in an error
\* and returns no series; for a name in countries() it returns the series of
\* exactly that country
C20_CountryLookup ==
  [][\A name \in QueryNames :
       (Country(name) \/ CountryUnknown(name)) =>
         IF \E r \in 1..Len(db) : countries(db)[r] = StrCell(name)
           THEN /\ pc' = "country"
                /\ \A r \in 1..Len(db) :
                     countries(db)[r] = StrCell(name) => series' = DaysOfRow(db[r])
           ELSE /\ pc' = "failed"
                /\ series' = series]_vars

C20_Witness ==
  /\ pc = "country"
  /\ Len(db) = 2
  /\ series = DaysOfRow(db[2])
  /\ series # DaysOfRow(db[1])


\* ------------------------------------------------- api.py: DayDataDiff
\* the outcome of reading a property: a value, or the exception raised
Returned(value) == [raised |-> "none", val |-> value]
Raised(exception) == [raised |-> exception]

\* the dates compare_dates is called with (1 is today, 2 is yesterday)
DaysBack == {1, 2}

\* api.py 144-145: self.__daydata[-days]; IndexError beyond the first day
get_data_before_x_days(daydata, days) ==
  IF days > Len(daydata) THEN Raised("IndexError") ELSE Returned(At(daydata, -days))

\* api.py 221-223: the two days a DayDataDiff holds
DayDataDiff(newest, older) == [new |-> newest, old |-> older]

\* api.py 153-156
compare_dates(daydata, date1, date2) ==
  LET low == IF date1 < date2 THEN date1 ELSE date2
      high == IF date1 < date2 THEN date2 ELSE date1
      new == get_data_before_x_days(daydata, low)
      old == get_data_before_x_days(daydata, high)
  IN IF new.raised # "none" THEN new
     ELSE IF old.raised # "none" THEN old
     ELSE Returned(DayDataDiff(new.val, old.val))

\* api.py 239-241
genrate_diff(newest_data, older_data) == Returned(newest_data - older_data)

\* a percentage that reads 0 for an older value of 0 instead of dividing
percentage_diff_guarding_zero(newest_data, older_data) ==
  IF older_data = 0 THEN Returned(Zero)
  ELSE Returned(Reduce(100 * (newest_data - older_data), older_data))

\* api.py 243-245: (newest_data / older_data - 1) * 100 = 100 * (newest_data -
\* older_data) / older_data; the division raises for an older value of 0
generate_percentage_diff(newest_data, older_data) ==
  IF older_data = 0 THEN Raised("ZeroDivisionError")
  ELSE Returned(Reduce(100 * (newest_data - older_data), older_data))

\* api.py 37-51: the key of the day record behind each SingleDayData property
Metrics == {"confirmed", "deaths", "recovered", "active"}
KeyOf(metric) ==
  CASE metric = "confirmed" -> "Confirmed"
    [] metric = "deaths" -> "Deaths"
    [] metric = "recovered" -> "Recovered"
    [] metric = "active" -> "Active"

\* api.py 253-283: the properties <metric>_diff and <metric>_percentage_diff
DiffKinds == {"diff", "percentage_diff"}
DiffProperty(diff, metric, kind) ==
  IF kind = "diff"
    THEN genrate_diff(diff.new[KeyOf(metric)], diff.old[KeyOf(metric)])
    ELSE generate_percentage_diff(diff.new[KeyOf(metric)], diff.old[KeyOf(metric)])

\* multipleDaysData.compare_dates(date1, date2); compare_to_yesterday() is
\* compare_dates(1, 2)
CompareDates(date1, date2) ==
  /\ pc = "constructed"
  /\ LET diff == compare_dates(raw, date1, date2)
     IN IF diff.raised = "none"
          THEN /\ answer' = [op |-> "compare_dates", val |-> diff.val]
               /\ pc' = "compared"
          ELSE /\ answer' = [op |-> "compare_dates", val |-> diff]
               /\ pc' = "failed"
  /\ UNCHANGED <<apiVars, hopkinsVars, mainVars>>

\* reading one property of the DayDataDiff that compare_dates returned
ReadDiff(metric, kind) ==
  /\ pc = "compared"
  /\ LET result == DiffProperty(answer.val, metric, kind)
     IN /\ answer' = [op |-> kind, metric |-> metric, val |-> result,
                      diff |-> answer.val]
        /\ pc' = IF result.raised = "none" THEN "answered" ELSE "failed"
  /\ UNCHANGED <<apiVars, hopkinsVars, mainVars>>

NextDiff ==
  \/ Construct
  \/ ConstructEmpty
  \/ \E date1 \in DaysBack, date2 \in DaysBack : CompareDates(date1, date2)
  \/ \E metric \in Metrics, kind \in DiffKinds : ReadDiff(metric, kind)

InitDiff == InitApi(SingleProvinceSeries)

SpecDiff == InitDiff /\ [][NextDiff]_vars

\* a property of a DayDataDiff was read
DiffRead == pc \in {"answered", "failed"} /\ answer.op \in DiffKinds
NewerValue == answer.diff.new[KeyOf(answer.metric)]
OlderValue == answer.diff.old[KeyOf(answer.metric)]

\* C21: for each of confirmed, deaths, recovered and active, the diff is
\* newer - older, the percentage is (newer / older - 1) * 100 when older is
\* not 0, and for older = 0 the percentage raises the division error
\* instead of returning a number.
C21_DiffAndPercentage ==
  DiffRead =>
    /\ answer.op = "diff" =>
         /\ pc = "answered"
         /\ answer.val = Returned(NewerValue - OlderValue)
    /\ (answer.op = "percentage_diff" /\ OlderValue # 0) =>
         /\ pc = "answered"
         /\ answer.val.raised = "none"
         /\ answer.val.val.den > 0
         /\ (answer.val.val.num + 100 * answer.val.val.den) * OlderValue
              = 100 * NewerValue * answer.val.val.den
    /\ (answer.op = "percentage_diff" /\ OlderValue = 0) =>
         /\ pc = "failed"
         /\ answer.val = Raised("ZeroDivisionError")

C21_Witness ==
  /\ DiffRead
  /\ answer.op = "percentage_diff"
  /\ answer.metric = "deaths"
  /\ OlderValue = 0
  /\ NewerValue = 1
  /\ pc = "failed"


\* ------------------------------------------ api.py: the caller's records
\* C22: constructing a multipleDaysData object leaves the list of day
\* records passed to it, and every record in it, with the values they had
\* before the call.
C22_CallerRecordsKeepTheirValues == Constructed => caller_data = json_info

\* ------------------------------------------------ api.py: the repair report
\* the list the repair was given by the constructor, and the cells of it
\* that the stored list holds with another value
RepairInput == Records(normalize_data(json_info))
ChangedCells ==
  {cell \in (1..Len(raw)) \X Monitored :
     RepairInput[cell[1]][cell[2]] # raw[cell[1]][cell[2]]}

\* C26: the count the repair reports is the number of (day, monitored
\* field) cells that differ between its input and its output, the total
\* is (number of monitored fields) * (number of days), nothing is logged
\* for a count of 0, and a logged count comes with a positive total, so
\* that the percentage of the report is defined.
C26_ReportCountsChangedCells ==
  pc \in {"constructed", "answered", "compared"} =>
    /\ Len(raw) = Len(RepairInput)
    /\ last_count = Cardinality(ChangedCells)
    /\ log = IF last_count = 0 THEN <<>>
             ELSE <<[count |-> last_count,
                     total |-> Cardinality(Monitored) * Len(raw)]>>
    /\ \A i \in 1..Len(log) : log[i].total > 0

C26_Witness ==
  /\ pc = "constructed"
  /\ last_count = 2
  /\ \E i \in 1..Len(raw) : {cell \in ChangedCells : cell[1] = i} = ChangedCells
  /\ Len(log) = 1

\* ------------------------------------------------ api.py: active cases
\* api.py 169-170
get_active_cases_list(daydata) == [i \in 1..Len(daydata) |-> daydata[i].Active]

ActiveIsTheRest(rec) == rec.Active = rec.Confirmed - rec.Recovered - rec.Deaths

\* C27: if every input record has Active = Confirmed - Recovered - Deaths,
\* every stored day has it too: get_active_cases_list()[i] is confirmed -
\* recovered - deaths of stored day i, repaired days included.
C27_ActiveFollowsRepair ==
  (Constructed /\ \A i \in 1..Len(json_info) : ActiveIsTheRest(json_info[i])) =>
    \A i \in 1..Len(raw) :
      get_active_cases_list(raw)[i]
        = raw[i].Confirmed - raw[i].Recovered - raw[i].Deaths


\* ------------------------------------ CovidHistoryDatabase.date_data
\* the dates a client asks for: the two date columns and a day after them
QueryDates ==
  {string_to_date(DateHeaders[i]) : i \in 1..Len(DateHeaders)}
    \cup {string_to_date(DateHeader(1, 24, 20))}

\* hopkins_api.py 665-677, scanning from day d of row r: a day record of the
\* asked date loses its 'date' key and gains 'country', in the stored dict
\* itself, and that dict is what the answer holds; date_data['date'] on a
\* record without the key raises KeyError and leaves the edits made so far
RECURSIVE DateDataFrom(_, _, _, _, _)
DateDataFrom(data, date, r, d, data_list) ==
  IF r > Len(data) THEN [data |-> data, result |-> Returned(data_list)]
  ELSE IF d > Len(data[r].data) THEN DateDataFrom(data, date, r + 1, 1, data_list)
  ELSE LET date_data == data[r].data[d]
       IN IF "date" \notin DOMAIN date_data
            THEN [data |-> data, result |-> Raised("KeyError")]
          ELSE IF date_data.date # date
            THEN DateDataFrom(data, date, r, d + 1, data_list)
          ELSE LET found == [key \in ((DOMAIN date_data) \ {"date"}) \cup {"country"} |->
                               IF key = "country" THEN data[r].country
                                                  ELSE date_data[key]]
               IN DateDataFrom([data EXCEPT ![r].data[d] = found], date, r, d + 1,
                               Append(data_list, found))

date_data(data, date) == DateDataFrom(data, date, 1, 1, <<>>)

\* hopkins_api.py 652-653
all_data(data) == data

\* CovidHistoryDatabase.date_data(date)
DateData(date) ==
  /\ pc = "built"
  /\ LET out == date_data(db, date)
     IN /\ db' = out.data
        /\ answer' = [op |-> "date_data", date |-> date, val |-> out.result]
        /\ pc' = IF out.result.raised = "none" THEN "built" ELSE "failed"
  /\ UNCHANGED <<apiVars, mainVars, sheets, series, args>>

NextDateData ==
  \/ BuildDatabase
  \/ \E date \in QueryDates : DateData(date)

SpecDateData == InitDatabase /\ [][NextDateData]_vars

\* C23: date_data(date) does not change the stored dataset: all_data(),
\* and with it the records country(c).data hands out, is after the call
\* what it was before, and a call repeated with the same date returns what
\* the call before it returned.
C23_DateDataKeepsDataset ==
  [][(\E date \in QueryDates : DateData(date)) =>
       /\ all_data(db') = all_data(db)
       /\ (answer.op = "date_data" /\ answer'.date = answer.date) =>
            answer'.val = answer.val]_vars

\* ------------------------------------------ CountryData: its attributes
\* hopkins_api.py 14-219: everything the class defines
CountryDataAttributes ==
  {"data", "confirmed_each_day", "confirmed", "confirmed_yesterday",
   "deaths_each_day", "deaths", "deaths_yesterday", "deaths_diff_today",
   "recovered_each_day", "recovered", "recovered_yesterday",
   "recovered_diff_today", "active_each_day", "active", "active_yesterday",
   "active_diff_today", "new_cases_each_day", "new_cases", "new_cases_yesterday",
   "new_cases_weekly_averages", "r_values_each_day", "r_value",
   "r_value_yesterday"}

\* the attributes a client reads
ReadAttributes == {"data", "name"}

\* country.data, hopkins_api.py 26-28
ReadData ==
  /\ pc = "country"
  /\ answer' = [op |-> "data", val |-> Returned(series)]
  /\ pc' = "answered"
  /\ UNCHANGED <<apiVars, hopkinsVars, mainVars>>

\* reading an attribute the class does not define raises AttributeError
ReadMissingAttribute(attribute) ==
  /\ pc = "country"
  /\ attribute \notin CountryDataAttributes
  /\ answer' = [op |-> attribute, val |-> Raised("AttributeError")]
  /\ pc' = "failed"
  /\ UNCHANGED <<apiVars, hopkinsVars, mainVars>>

NextAttributes ==
  \/ BuildDatabase
  \/ \E name \in QueryNames : Country(name)
  \/ \E name \in QueryNames : CountryUnknown(name)
  \/ ReadData
  \/ \E attribute \in ReadAttributes : ReadMissingAttribute(attribute)

SpecAttributes == InitDatabase /\ [][NextAttributes]_vars

\* C25: every CountryData that country() returns exposes a name that is a
\* non-empty string and a member of countries().
C25_CountryHasName ==
  answer.op = "name" =>
    /\ pc = "answered"
    /\ answer.val.raised = "none"
    /\ answer.val.val # ""
    /\ \E r \in 1..Len(db) : countries(db)[r] = StrCell(answer.val.val)


\* --------------------------------- painter.py: SingleDataPoster's change
\* Python's None
None == [none |-> TRUE]

\* painter.py 231-233
delta(now, prev) == now - prev

\* painter.py 245-251: None for an older value of 0, else
\* delta / (prev / 100)
delta_precentage(now, prev) ==
  IF prev = 0 THEN Returned(None)
  ELSE Returned(FloatDiv(Reduce(delta(now, prev), 1), TrueDiv(prev, 100)))

\* DayDataDiff.__generate_percentage_diff(now, prev), as the *_percentage_diff
\* properties call it
GeneratePercentageDiff ==
  /\ pc = "values"
  /\ LET result == generate_percentage_diff(args.now, args.prev)
     IN /\ answer' = [op |-> "generate_percentage_diff", val |-> result]
        /\ pc' = IF result.raised = "none" THEN "answered" ELSE "failed"
  /\ UNCHANGED <<apiVars, hopkinsVars, mainVars>>

\* SingleDataPoster(title, now, prev).delta_precentage
DeltaPrecentage ==
  /\ pc = "values"
  /\ answer' = [op |-> "delta_precentage",
                val |-> delta_precentage(args.now, args.prev)]
  /\ pc' = "answered"
  /\ UNCHANGED <<apiVars, hopkinsVars, mainVars>>

NextPercentage ==
  \/ GeneratePercentageDiff
  \/ DeltaPrecentage

\* a newer and an older value of one metric
InitPercentage ==
  InitHelper([now : 0..MaxCount, prev : 0..MaxCount], "values")

SpecPercentage == InitPercentage /\ [][NextPercentage]_vars

\* what a percentage computation does with its arguments: it raises, it
\* reports the value as unavailable (None), or it gives a number
Handling(result) ==
  IF result.raised # "none" THEN "error"
  ELSE IF result.val = None THEN "unavailable"
  ELSE "number"

\* C28: every percentage-change computation treats an older value of 0 in
\* the same way: the *_percentage_diff properties of DayDataDiff and
\* SingleDataPoster.delta_precentage either both raise or both report the
\* value as unavailable.
C28_SameHandlingOfZero ==
  (pc \in {"answered", "failed"} /\ args.prev = 0) =>
    /\ Handling(answer.val) \in {"error", "unavailable"}
    /\ Handling(generate_percentage_diff(args.now, args.prev))
         = Handling(delta_precentage(args.now, args.prev))


\* -------------------------- CovidHistoryDatabase: three tables of their own
\* a downloaded table: up to MaxRows rows, each of another country, in any
\* order, with any counts
TablesOfCountries ==
  {Sheet(rows) :
     rows \in {t \in SeqsUpTo({SheetRow(n, c) : n \in CountryNames,
                                                c \in CountsPerDate}, MaxRows) :
                 \A i, j \in 1..Len(t) : t[i][2] = t[j][2] => i = j}}

\* the three downloads, each with its own rows
InitTables ==
  /\ json_info = <<>>
  /\ caller_data = <<>>
  /\ raw = <<>>
  /\ log = <<>>
  /\ last_count = 0
  /\ sheets \in [confirmed : TablesOfCountries, deaths : TablesOfCountries,
                 recovered : TablesOfCountries]
  /\ db = <<>>
  /\ series = <<>>
  /\ args = <<>>
  /\ NoMain
  /\ answer = NoAnswer
  /\ pc = "downloaded"

SpecTables == InitTables /\ [][BuildDatabase]_vars

\* the table has a row of that country / a column of that date
TableHasCountry(sheet, country) ==
  \E r \in 1..Len(sheet.content) : sheet.content[r][2] = country
TableHasDate(sheet, date) ==
  \E k \in 1..Len(sheet.headers) : string_to_date(sheet.headers[k]) = date
\* the cell the table gives for that country on that date
TableValue(sheet, country, date) ==
  LET r == CHOOSE r \in 1..Len(sheet.content) : sheet.content[r][2] = country
      k == CHOOSE k \in 1..Len(sheet.headers) :
             string_to_date(sheet.headers[k]) = date
  IN sheet.content[r][k]

TableKinds == {"confirmed", "deaths", "recovered"}

\* the three tables list the same countries (in any order)
SameCountriesInEachTable ==
  \A kind \in TableKinds :
    {sheets[kind].content[r][2] : r \in 1..Len(sheets[kind].content)}
      = {sheets.confirmed.content[r][2] : r \in 1..Len(sheets.confirmed.content)}

\* C29: in the database that __combine_data builds, every day record of
\* country C with date D holds as confirmed, deaths and recovered what the
\* three tables give for C on D, and every country of the confirmed table
\* is present, whatever the order of the rows of each table (stated here
\* for tables that list the same countries and the same date columns).
C29_RecordsMatchTables ==
  (pc = "built" /\ SameCountriesInEachTable) =>
    /\ \A r \in 1..Len(sheets.confirmed.content) :
         \E q \in 1..Len(db) : db[q].country = sheets.confirmed.content[r][2]
    /\ \A q \in 1..Len(db) : \A d \in 1..Len(db[q].data) : \A kind \in TableKinds :
         (/\ TableHasCountry(sheets[kind], db[q].country)
          /\ TableHasDate(sheets[kind], db[q].data[d].date)) =>
           db[q].data[d][kind]
             = TableValue(sheets[kind], db[q].country, db[q].data[d].date)


\* ------------------------------------------------------ main.py: a run
\* the country codes config.json may list; a json dictionary has each once
CountryCodes == {"de", "il", "us"}
ConfigFiles ==
  {c \in SeqsUpTo(CountryCodes, MaxConfig) :
     \A i, j \in 1..Len(c) : c[i] = c[j] => i = j}

\* main.py 35: the class attribute __api, which no statement assigns
ClassApi == 0
\* main.py 183: the default temp_image_name
TempImageName == "tempimg.jpg"

\* the bot that main() is running, and the value self.__api reads for it:
\* the instance attribute once line 57 has set it, else the class attribute
CurrentBot == Len(bots)
ApiOf(bot) == IF bot.api # 0 THEN bot.api ELSE ClassApi

\* what a call into the network or the locale tables may do
Outcomes == {"returns", "raises"}

\* main.py 304-307: the loop takes the next country and to_bot() makes a
\* bot for it (main.py 275-280, 37-50)
NextCountryConfig ==
  /\ pc = "main"
  /\ Len(bots) < Len(config)
  /\ bots' = Append(bots, [country |-> config[Len(bots) + 1], api |-> 0])
  /\ pc' = "to_image"
  /\ UNCHANGED <<apiVars, hopkinsVars, config, downloads, files, answer>>

\* main.py 304: the config file is exhausted, main() returns
MainReturns ==
  /\ pc = "main"
  /\ Len(bots) = Len(config)
  /\ pc' = "done"
  /\ UNCHANGED <<apiVars, hopkinsVars, mainVars, answer>>

\* main.py 191 with 82, 60-67 and 52-58: to_image asks __get_api for the
\* database; `self.__api = CovidHistoryDatabase()` downloads and assigns the
\* attribute of this bot.  The download may raise (RequestAPIError)
ToImage(outcome) ==
  /\ pc = "to_image"
  /\ IF ApiOf(bots[CurrentBot]) # 0
       THEN /\ pc' = "save"
            /\ UNCHANGED <<bots, downloads, answer>>
     ELSE IF outcome = "returns"
       THEN /\ downloads' = downloads + 1
            /\ bots' = [bots EXCEPT ![CurrentBot].api = downloads + 1]
            /\ pc' = "save"
            /\ UNCHANGED answer
     ELSE /\ answer' = [op |-> "to_image", val |-> Raised("RequestAPIError")]
          /\ pc' = "crashed"
          /\ UNCHANGED <<bots, downloads>>
  /\ UNCHANGED <<apiVars, hopkinsVars, config, files>>

\* main.py 192: img.save(temp_image_name)
SaveImage ==
  /\ pc = "save"
  /\ files' = files \cup {TempImageName}
  /\ pc' = "get_caption"
  /\ UNCHANGED <<apiVars, hopkinsVars, config, bots, downloads, answer>>

\* main.py 195, 201-204: territories[country_code] raises KeyError for a code
\* the locale does not list
GetCaption(outcome) ==
  /\ pc = "get_caption"
  /\ IF outcome = "returns"
       THEN pc' = "login" /\ UNCHANGED answer
       ELSE /\ answer' = [op |-> "get_caption", val |-> Raised("KeyError")]
            /\ pc' = "crashed"
  /\ UNCHANGED <<apiVars, hopkinsVars, mainVars>>

\* main.py 196 with 175-176: bot.login
Login(outcome) ==
  /\ pc = "login"
  /\ IF outcome = "returns"
       THEN pc' = "upload_photo" /\ UNCHANGED answer
       ELSE /\ answer' = [op |-> "login", val |-> Raised("Exception")]
            /\ pc' = "crashed"
  /\ UNCHANGED <<apiVars, hopkinsVars, mainVars>>

\* main.py 177-178: bot.upload_photo, which keeps the file (rename: False)
UploadPhoto(outcome) ==
  /\ pc = "upload_photo"
  /\ IF outcome = "returns"
       THEN pc' = "remove" /\ UNCHANGED answer
       ELSE /\ answer' = [op |-> "upload_photo", val |-> Raised("Exception")]
            /\ pc' = "crashed"
  /\ UNCHANGED <<apiVars, hopkinsVars, mainVars>>

\* main.py 199: os.remove(temp_image_name); generate_and_upload returns and
\* main() logs the upload (312-316)
RemoveImage ==
  /\ pc = "remove"
  /\ files' = files \ {TempImageName}
  /\ pc' = "main"
  /\ UNCHANGED <<apiVars, hopkinsVars, config, bots, downloads, answer>>

NextMain ==
  \/ NextCountryConfig
  \/ MainReturns
  \/ \E outcome \in Outcomes : ToImage(outcome)
  \/ SaveImage
  \/ \E outcome \in Outcomes : GetCaption(outcome)
  \/ \E outcome \in Outcomes : Login(outcome)
  \/ \E outcome \in Outcomes : UploadPhoto(outcome)
  \/ RemoveImage

InitMain ==
  /\ json_info = <<>>
  /\ caller_data = <<>>
  /\ raw = <<>>
  /\ log = <<>>
  /\ last_count = 0
  /\ sheets = <<>>
  /\ db = <<>>
  /\ series = <<>>
  /\ args = <<>>
  /\ config \in ConfigFiles
  /\ bots = <<>>
  /\ downloads = 0
  /\ files = {}
  /\ answer = NoAnswer
  /\ pc = "main"

SpecMain == InitMain /\ [][NextMain]_vars

\* C24: during one run of main(), whatever the number of countries of the
\* config file, CovidHistoryDatabase is constructed at most once and every
\* bot of the run reads the same download.
C24_DownloadedOnce ==
  /\ downloads <= 1
  /\ \A b, c \in 1..Len(bots) :
       (bots[b].api # 0 /\ bots[c].api # 0) => bots[b].api = bots[c].api

\* generate_and_upload is not running: it returned, or it raised
OperationEnded == pc \in {"main", "done", "crashed"}

\* C30: in generate_and_upload the image file is saved before the upload
\* starts, and whenever the operation ends, by returning or by an error
\* raised while building the caption, logging in or uploading, the
\* temporary image file no longer exists.
C30_TempImageRemoved ==
  /\ pc \in {"login", "upload_photo"} => TempImageName \in files
  /\ OperationEnded => TempImageName \notin files

====
